---- MODULE Spec2Model ----
(***************************************************************************)
(* Model of the two market-data services of the repository:                *)
(*   src/tools/finance/tushare_realtime_service.py  TushareRealtimeService *)
(*   src/tools/finance/finnhub_service.py           FinnhubService         *)
(*                                                                         *)
(* Python strings are sequences of one-character strings, so that split,   *)
(* strip and join are computed character by character.  A request runs as  *)
(* one action; the value it returns stays in `ret` until the caller takes  *)
(* it (Return).  Every upstream call of a request is logged in `calls`.    *)
(* A process constructs one of the two services, as each module's entry    *)
(* point does; the services share no state.                                *)
(***************************************************************************)
EXTENDS Integers, Sequences, FiniteSets, TLC

VARIABLES
    service,            \* the service this process constructed
    TUSHARE_AVAILABLE,  \* module flag: `import tushare` succeeded
    pro,                \* TRUE iff self.pro is not None
    client,             \* TRUE iff FinnhubService.client is not None
    now,                \* time.time(), in seconds
    ticks,              \* number of clock steps taken so far
    cache,              \* the file data/cache/tushare/stock_basic.json
    op,                 \* the operation whose result is being returned
    arg,                \* its arguments
    ret,                \* the value it returns (or the exception it raises)
    calls,              \* the upstream calls it made, in order
    pre,                \* the cache file as the operation found it
    inner,              \* what the operation obtained on the way: the directory
                        \* it resolved against, the results it merged
    tasks,              \* the coroutines running _get_stock_basic on one event loop
    issued,             \* the pro.stock_basic calls handed to the executor
    written             \* the payloads _save_cache has written, in order

vars ==
    <<service, TUSHARE_AVAILABLE, pro, client, now, ticks, cache, op, arg, ret, calls, pre,
      inner, tasks, issued, written>>

coroutines == <<tasks, issued, written>>

config == <<service, TUSHARE_AVAILABLE, pro, client>>

----------------------------------------------------------------------------
(* Bounds of the model *)

MaxTicks == 2
MaxPieces == 2
NumTasks == 2
MaxCalls == 3

(* Program constants *)

cache_expire_hours == 24
SecondsPerHour == 3600
MaxStocksPerRequest == 50
NewsLimit == 10

----------------------------------------------------------------------------
(* Strings *)

IsSpace(c) == c = " "

RECURSIVE lstrip(_)
lstrip(s) == IF s # <<>> /\ IsSpace(Head(s)) THEN lstrip(Tail(s)) ELSE s

RECURSIVE rstrip(_)
rstrip(s) ==
    IF s # <<>> /\ IsSpace(s[Len(s)]) THEN rstrip(SubSeq(s, 1, Len(s) - 1)) ELSE s

\* str.strip()
strip(s) == rstrip(lstrip(s))

\* str.split(','): the pieces between the separators, empty pieces included
split(s) ==
    LET commas == SelectSeq([i \in DOMAIN s |-> i], LAMBDA i : s[i] = ",")
        edges == <<0>> \o commas \o <<Len(s) + 1>>
    IN  [k \in 1..(Len(commas) + 1) |-> SubSeq(s, edges[k] + 1, edges[k + 1] - 1)]

\* ",".join(list)
RECURSIVE join(_)
join(l) ==
    IF l = <<>> THEN <<>>
    ELSE IF Len(l) = 1 THEN l[1]
    ELSE l[1] \o <<",">> \o join(Tail(l))

\* ',' in s
HasComma(s) == \E i \in 1..Len(s) : s[i] = ","

\* [n.strip() for n in stock_names.split(',') if n.strip()]
names_list(stock_names) ==
    LET pieces == split(stock_names) IN
    SelectSeq([i \in DOMAIN pieces |-> strip(pieces[i])], LAMBDA n : n # <<>>)

Range(f) == {f[i] : i \in DOMAIN f}

UpperChar(c) ==
    CASE c = "a" -> "A" [] c = "m" -> "M" [] c = "i" -> "I" [] c = "n" -> "N"
      [] OTHER -> c

\* str.upper()
upper(s) == [i \in DOMAIN s |-> UpperChar(s[i])]

----------------------------------------------------------------------------
(* The symbol directory: rows of ts_code, symbol, name *)

Row(code, name) == [ts_code |-> code, symbol |-> code, name |-> name]

\* The tables the upstream listing may hold.  Names differ only in case in
\* the first; the second lists one name under two codes.
Tables ==
    { << Row(<<"1">>, <<"a">>), Row(<<"2">>, <<"A">>) >>,
      << Row(<<"2">>, <<"a">>), Row(<<"1">>, <<"a">>) >> }

\* A pandas DataFrame, or None
DataFrame(rows) == [kind |-> "DataFrame", rows |-> rows]
None == [kind |-> "None", rows |-> <<>>]

\* df is None or df.empty
IsNoneOrEmpty(df) == df.kind = "None" \/ df.rows = <<>>

\* What pro.stock_basic(...) may do: raise, return an empty table, a table
StockBasicOutcomes ==
    {[kind |-> "raise", rows |-> <<>>], DataFrame(<<>>)} \cup {DataFrame(t) : t \in Tables}

\* What writing the cache file may do: succeed, fail before the file is
\* opened (file untouched), fail after open(..., 'w') truncated it
SaveOutcomes == {"ok", "open_failed", "dump_failed"}

----------------------------------------------------------------------------
(* The cache file *)

NoFile == [kind |-> "absent", timestamp |-> 0, data |-> <<>>]
CorruptFile == [kind |-> "corrupt", timestamp |-> 0, data |-> <<>>]
CacheRecord(t, data) == [kind |-> "record", timestamp |-> t, data |-> data]

\* Files the service did not write.  The cells of a payload without the
\* ts_code and name columns are placeholders.
ForeignRow == [ts_code |-> <<>>, symbol |-> <<>>, name |-> <<>>]

\* valid JSON whose top level is no object: cache_data.get raises
NotAnObject == [kind |-> "not_object", timestamp |-> 0, data |-> <<>>]

\* no 'timestamp' key: cache_data.get('timestamp', 0) is 0
NoTimestamp(data) == [kind |-> "no_timestamp", timestamp |-> 0, data |-> data]

\* a 'timestamp' that is no number: the subtraction raises
BadTimestamp(data) == [kind |-> "bad_timestamp", timestamp |-> 0, data |-> data]

\* a 'data' that is true in Python and that pd.DataFrame refuses
ScalarPayload(t) == [kind |-> "scalar_payload", timestamp |-> t, data |-> <<ForeignRow>>]

\* a 'data' that pd.DataFrame accepts and that has no ts_code or name column
ForeignPayload(t) == [kind |-> "foreign_payload", timestamp |-> t, data |-> <<ForeignRow>>]

\* The files whose timestamp and data _load_cache gets to read
Readable(file) ==
    file.kind \in {"record", "no_timestamp", "scalar_payload", "foreign_payload"}

\* Mutant of NotExpired: a record stamped later than the clock is refused
NotExpired_NoFuture(t, cache_time) ==
    0 <= t - cache_time /\ t - cache_time < cache_expire_hours * SecondsPerHour

\* Mutant of NotExpired: a record aged exactly the window is still served
NotExpired_Inclusive(t, cache_time) ==
    t - cache_time <= cache_expire_hours * SecondsPerHour

\* time.time() - cache_time < self.cache_expire_hours * 3600
NotExpired(t, cache_time) == t - cache_time < cache_expire_hours * SecondsPerHour

\* _load_cache: the 'data' of a readable, unexpired record, else None
_load_cache(file, t) ==
    IF Readable(file) /\ NotExpired(t, file.timestamp)
    THEN [isNone |-> FALSE, data |-> file.data, payload |-> file.kind]
    ELSE [isNone |-> TRUE, data |-> <<>>, payload |-> "None"]

\* Python truth of the loaded value: None and [] are false
Truthy(loaded) == ~loaded.isNone /\ loaded.data # <<>>

\* pd.DataFrame(cached_data) does not raise
Constructible(loaded) == loaded.payload # "scalar_payload"

\* A frame whose columns are not those of the listing
ForeignFrame(rows) == [kind |-> "ForeignFrame", rows |-> rows]

\* pd.DataFrame(cached_data)
FrameOf(loaded) ==
    IF loaded.payload = "foreign_payload" THEN ForeignFrame(loaded.data)
    ELSE DataFrame(loaded.data)

\* The cached data is returned: it is true and a frame is built from it
CacheHit(file, t) == Truthy(_load_cache(file, t)) /\ Constructible(_load_cache(file, t))

\* Mutant of _save_cache: the file is opened for appending, so a write onto
\* a record leaves both payloads in it
_save_cache_Append(file, t, data, outcome) ==
    CASE outcome = "ok" ->
            IF file.kind = "record" THEN CacheRecord(t, file.data \o data)
            ELSE CacheRecord(t, data)
      [] outcome = "open_failed" -> file
      [] OTHER -> CorruptFile

\* _save_cache: the file after the attempt to write {timestamp, data}
_save_cache(file, t, data, outcome) ==
    CASE outcome = "ok" -> CacheRecord(t, data)
      [] outcome = "open_failed" -> file
      [] OTHER -> CorruptFile

Call(endpoint, ok) == [endpoint |-> endpoint, ok |-> ok]

\* Mutant of OnFetchError: serve the snapshot on disk, however old
OnFetchError_Stale(file) ==
    IF file.kind = "record" THEN DataFrame(file.data) ELSE None

\* except Exception: the error is logged and None is returned
OnFetchError(file) == None

\* Mutant of AfterFetch: _save_cache lets its error out, and the except
\* clause of _get_stock_basic turns it into None
AfterFetch_SaveRaises(file, t, up, sv) ==
    IF up.kind = "raise"
    THEN [df |-> OnFetchError(file), file |-> file,
          calls |-> <<Call("stock_basic", FALSE)>>]
    ELSE IF ~IsNoneOrEmpty(up)
    THEN [df |-> IF sv = "ok" THEN up ELSE OnFetchError(file),
          file |-> _save_cache(file, t, up.rows, sv),
          calls |-> <<Call("stock_basic", TRUE)>>]
    ELSE [df |-> None, file |-> file, calls |-> <<Call("stock_basic", TRUE)>>]

\* Mutant of AfterFetch: an empty directory is written to the cache too
AfterFetch_SavesEmpty(file, t, up, sv) ==
    IF up.kind = "raise"
    THEN [df |-> OnFetchError(file), file |-> file,
          calls |-> <<Call("stock_basic", FALSE)>>]
    ELSE [df |-> IF IsNoneOrEmpty(up) THEN None ELSE up,
          file |-> _save_cache(file, t, up.rows, sv),
          calls |-> <<Call("stock_basic", TRUE)>>]

\* _get_stock_basic from the point where the awaited pro.stock_basic call
\* ends: the frame returned, the file left behind, the call made
AfterFetch(file, t, up, sv) ==
    IF up.kind = "raise"
    THEN [df |-> OnFetchError(file), file |-> file,
          calls |-> <<Call("stock_basic", FALSE)>>]
    ELSE IF ~IsNoneOrEmpty(up)
    THEN [df |-> up, file |-> _save_cache(file, t, up.rows, sv),
          calls |-> <<Call("stock_basic", TRUE)>>]
    ELSE [df |-> None, file |-> file, calls |-> <<Call("stock_basic", TRUE)>>]

\* _get_stock_basic: the frame returned, the file left behind, the upstream
\* calls made.  up is what the upstream listing does if it is called, sv
\* what the write of the cache file does if it is attempted.
_get_stock_basic(file, t, up, sv) ==
    IF ~pro THEN [df |-> None, file |-> file, calls |-> <<>>]
    ELSE IF CacheHit(file, t)
    THEN [df |-> FrameOf(_load_cache(file, t)), file |-> file, calls |-> <<>>]
    ELSE AfterFetch(file, t, up, sv)

----------------------------------------------------------------------------
(* Name and code lookup *)

\* A Python dict, in insertion order: a sequence of key/value pairs
DictKeys(d) == {d[i].key : i \in DOMAIN d}
DictValues(d) == [i \in DOMAIN d |-> d[i].value]
DictGet(d, k, default) ==
    IF k \in DictKeys(d) THEN d[CHOOSE i \in DOMAIN d : d[i].key = k].value ELSE default

\* Mutant of CellEquals: the comparison ignores case
CellEquals_IgnoreCase(cell, wanted) == upper(cell) = upper(wanted)

\* df['name'] == name, df['ts_code'] == code: exact string equality
CellEquals(cell, wanted) == cell = wanted

\* df[df['name'] == name]
RowsByName(rows, name) == SelectSeq(rows, LAMBDA r : CellEquals(r.name, name))
RowsByCode(rows, code) == SelectSeq(rows, LAMBDA r : CellEquals(r.ts_code, code))

\* The dict the lookup loop builds: one entry per key that has a row, in the
\* order the keys first occur, holding the field of the first matching row
FirstOccurrences(keys, present) ==
    SelectSeq([i \in DOMAIN keys |-> i],
              LAMBDA i : keys[i] \in present /\ \A j \in 1..(i - 1) : keys[j] # keys[i])

\* name_map[name] = row.iloc[0]['ts_code'] for each name with a row
NameMap(rows, names) ==
    LET at == FirstOccurrences(names, {n \in Range(names) : RowsByName(rows, n) # <<>>}) IN
    [k \in DOMAIN at |->
        [key |-> names[at[k]], value |-> RowsByName(rows, names[at[k]])[1].ts_code]]

\* code_map[code] = row.iloc[0]['name'] for each code with a row
CodeMap(rows, codes) ==
    LET at == FirstOccurrences(codes, {c \in Range(codes) : RowsByCode(rows, c) # <<>>}) IN
    [k \in DOMAIN at |->
        [key |-> codes[at[k]], value |-> RowsByCode(rows, codes[at[k]])[1].name]]

\* df['name'] or df['ts_code'] raises KeyError: the frame has rows and not
\* the column
LacksColumns(df) == ~IsNoneOrEmpty(df) /\ df.kind = "ForeignFrame"

\* _get_code_by_name: the name -> code dict, with the directory fetch it
\* makes; raised when the lookup ends in a KeyError
_get_code_by_name(file, t, names, up, sv) ==
    LET sb == _get_stock_basic(file, t, up, sv) IN
    [map |-> IF IsNoneOrEmpty(sb.df) \/ LacksColumns(sb.df) THEN <<>>
             ELSE NameMap(sb.df.rows, names),
     raised |-> LacksColumns(sb.df),
     df |-> sb.df, file |-> sb.file, calls |-> sb.calls]

\* _get_name_by_code: the code -> name dict
_get_name_by_code(file, t, codes, up, sv) ==
    LET sb == _get_stock_basic(file, t, up, sv) IN
    [map |-> IF IsNoneOrEmpty(sb.df) \/ LacksColumns(sb.df) THEN <<>>
             ELSE CodeMap(sb.df.rows, codes),
     raised |-> LacksColumns(sb.df),
     df |-> sb.df, file |-> sb.file, calls |-> sb.calls]

----------------------------------------------------------------------------
(* Response envelopes *)

NoMetadata == [keys |-> {}, count |-> 0, name |-> <<>>, not_found_names |-> <<>>]
Metadata(keys, count) ==
    [keys |-> keys, count |-> count, name |-> <<>>, not_found_names |-> <<>>]

\* keys: the keys the returned dict has; a field whose key is absent holds
\* a placeholder
Envelope(success, keys, data, error, metadata) ==
    [kind |-> "envelope", success |-> success, keys |-> keys, found |-> FALSE,
     data |-> data, error |-> error, metadata |-> metadata]

\* {"success": False, "error": ...}
Failed(error) == Envelope(FALSE, {"success", "error"}, <<>>, error, NoMetadata)

\* {"success": True, "data": ..., "metadata": {...}}
Succeeded(data, metadata) ==
    Envelope(TRUE, {"success", "data", "metadata"}, data, "", metadata)

Raised(exc) == [kind |-> "raise", exc |-> exc]

\* What a request of the Tushare service hands back: the value returned, the
\* cache file it leaves, the upstream calls it made, the directory it read
Out(r, file, cs) == [ret |-> r, file |-> file, calls |-> cs, df |-> None]
Using(df, out) == [out EXCEPT !.df = df]

\* What a realtime endpoint may do: raise, return nothing, return rows, return
\* rows a conversion chokes on
EndpointOutcomes == {"raise", "empty", "rows", "bad"}

----------------------------------------------------------------------------
(* Realtime quote *)

QuoteRecords(codes) == [i \in DOMAIN codes |-> [ts_code |-> codes[i]]]

\* Mutant of QuoteExcept: the quote call is tried a second time before the
\* failure is reported
QuoteExcept_Retry(file) ==
    Out(Failed("str(e)"), file,
        <<Call("realtime_quote", FALSE), Call("realtime_quote", FALSE)>>)

\* Mutant of QuoteExcept: the exception leaves _get_realtime_quote
QuoteExcept_Propagates(file) ==
    Out(Raised("Exception"), file, <<Call("realtime_quote", FALSE)>>)

\* except Exception as e: return {"success": False, "error": str(e)}
QuoteExcept(file) == Out(Failed("str(e)"), file, <<Call("realtime_quote", FALSE)>>)

\* _get_realtime_quote
_get_realtime_quote(file, ts_codes, src, q) ==
    IF ~TUSHARE_AVAILABLE THEN Out(Failed("Tushare not available"), file, <<>>)
    ELSE IF q = "raise" THEN QuoteExcept(file)
    ELSE IF q = "empty"
    THEN Out(Succeeded(<<>>, Metadata({"ts_codes", "src", "count", "message"}, 0)),
             file, <<Call("realtime_quote", TRUE)>>)
    ELSE IF q = "bad"
    THEN Out(Failed("str(e)"), file, <<Call("realtime_quote", TRUE)>>)
    ELSE LET records == QuoteRecords(split(ts_codes)) IN
         Out(Succeeded(records,
                       Metadata({"ts_codes", "src", "count", "query_time"}, Len(records))),
             file, <<Call("realtime_quote", TRUE)>>)

\* Mutant of TooManyNames: the limit is off by one
TooManyNames_OffByOne(names) == Len(names) > MaxStocksPerRequest + 1

\* len(names_list) > 50
TooManyNames(names) == Len(names) > MaxStocksPerRequest

\* [n for n in names_list if n not in name_code_map]
NotFound(names, map) == SelectSeq(names, LAMBDA n : n \notin DictKeys(map))

\* Mutant of AttachNotFound: the names are attached only to a response that
\* carries rows
AttachNotFound_IfData(result, not_found) ==
    IF not_found # <<>> /\ result.success /\ result.data # <<>>
    THEN [result EXCEPT !.metadata.keys = @ \cup {"not_found_names"},
                        !.metadata.not_found_names = not_found]
    ELSE result

\* if not_found and result.get("success"):
\*     result["metadata"]["not_found_names"] = not_found
AttachNotFound(result, not_found) ==
    IF not_found # <<>> /\ result.success
    THEN IF "metadata" \in result.keys
         THEN [result EXCEPT !.metadata.keys = @ \cup {"not_found_names"},
                             !.metadata.not_found_names = not_found]
         ELSE Raised("KeyError")
    ELSE result

\* get_realtime_by_name
get_realtime_by_name(file, t, stock_names, up, sv, q) ==
    LET names == names_list(stock_names)
        found == _get_code_by_name(file, t, names, up, sv)
        ts_codes == join(DictValues(found.map))
        result == _get_realtime_quote(found.file, ts_codes, "sina", q)
    IN  IF names = <<>> THEN Out(Failed("No stock names provided"), file, <<>>)
        ELSE IF TooManyNames(names)
        THEN Out(Failed("Maximum 50 stocks per request"), file, <<>>)
        ELSE IF found.raised
        THEN Using(found.df, Out(Raised("KeyError"), found.file, found.calls))
        ELSE IF found.map = <<>>
        THEN Using(found.df, Out(Failed("Could not find codes for"), found.file, found.calls))
        ELSE Using(found.df, Out(AttachNotFound(result.ret, NotFound(names, found.map)),
                                 result.file, found.calls \o result.calls))

----------------------------------------------------------------------------
(* Realtime tick *)

TickRecords == << [type |-> "tick"] >>

\* _get_realtime_tick
_get_realtime_tick(file, t, ts_code, src, k, up, sv) ==
    IF ~TUSHARE_AVAILABLE THEN Out(Failed("Tushare not available"), file, <<>>)
    ELSE IF ts_code = <<>> THEN Out(Failed("ts_code is required"), file, <<>>)
    ELSE IF HasComma(ts_code)
    THEN Out(Failed("Only single stock code is supported for realtime_tick"), file, <<>>)
    ELSE IF k = "raise"
    THEN Out(Failed("str(e)"), file, <<Call("realtime_tick", FALSE)>>)
    ELSE IF k = "empty"
    THEN Out(Succeeded(<<>>, Metadata({"ts_code", "src", "count", "message"}, 0)),
             file, <<Call("realtime_tick", TRUE)>>)
    ELSE LET named == _get_name_by_code(file, t, <<ts_code>>, up, sv)
             cs == <<Call("realtime_tick", TRUE)>> \o named.calls
         IN  IF k = "bad" \/ named.raised THEN Out(Failed("str(e)"), named.file, cs)
             ELSE Out(Succeeded(TickRecords,
                          [Metadata({"ts_code", "name", "src", "count", "query_time"}, 1)
                              EXCEPT !.name = DictGet(named.map, ts_code, <<>>)]),
                      named.file, cs)

\* Mutant of TickName: the first name of a comma-separated list is looked up
TickName_First(stock_name) ==
    IF names_list(stock_name) = <<>> THEN <<>> ELSE names_list(stock_name)[1]

\* The name looked up by get_realtime_tick_by_name: stock_name.strip()
TickName(stock_name) == strip(stock_name)

\* get_realtime_tick_by_name; a name that resolves to no code leaves ts_code
\* None, which _get_realtime_tick refuses like the empty string
get_realtime_tick_by_name(file, t, stock_name, src, up, sv, k, up2, sv2) ==
    LET found == _get_code_by_name(file, t, <<TickName(stock_name)>>, up, sv)
        ts_code == DictGet(found.map, TickName(stock_name), <<>>)
        result == _get_realtime_tick(found.file, t, ts_code, src, k, up2, sv2)
    IN  IF stock_name = <<>> THEN Out(Failed("stock_name is required"), file, <<>>)
        ELSE IF found.raised
        THEN Using(found.df, Out(Raised("KeyError"), found.file, found.calls))
        ELSE IF found.map = <<>>
        THEN Using(found.df, Out(Failed("Could not find code for"), found.file, found.calls))
        ELSE Using(found.df, Out(result.ret, result.file, found.calls \o result.calls))

----------------------------------------------------------------------------
(* Minute bars *)

FREQ_OPTIONS ==
    { <<"1", "M", "I", "N">>, <<"5", "M", "I", "N">>, <<"1", "5", "M", "I", "N">>,
      <<"3", "0", "M", "I", "N">>, <<"6", "0", "M", "I", "N">> }

\* _validate_freq does not raise ValueError
_validate_freq(freq) == upper(freq) \in FREQ_OPTIONS

MinuteRecords(codes, map) ==
    [i \in DOMAIN codes |-> [ts_code |-> codes[i], name |-> DictGet(map, codes[i], <<>>)]]

\* _get_realtime_minute
_get_realtime_minute(file, t, ts_codes, freq, m, up, sv) ==
    IF ~pro THEN Out(Failed("Tushare not initialized"), file, <<>>)
    ELSE IF ~_validate_freq(freq) THEN Out(Failed("Invalid freq"), file, <<>>)
    ELSE IF m = "raise" THEN Out(Failed("str(e)"), file, <<Call("rt_min", FALSE)>>)
    ELSE IF m = "empty"
    THEN Out(Succeeded(<<>>, Metadata({"ts_codes", "freq", "count", "message"}, 0)),
             file, <<Call("rt_min", TRUE)>>)
    ELSE LET codes == split(ts_codes)
             named == _get_name_by_code(file, t, codes, up, sv)
             cs == <<Call("rt_min", TRUE)>> \o named.calls
         IN  IF m = "bad" \/ named.raised THEN Out(Failed("str(e)"), named.file, cs)
             ELSE Out(Succeeded(MinuteRecords(codes, named.map),
                          Metadata({"ts_codes", "freq", "count", "query_time"}, Len(codes))),
                      named.file, cs)

\* _get_minute_by_name
_get_minute_by_name(file, t, stock_names, freq, up, sv, m, up2, sv2) ==
    LET names == names_list(stock_names)
        found == _get_code_by_name(file, t, names, up, sv)
        ts_codes == join(DictValues(found.map))
        result == _get_realtime_minute(found.file, t, ts_codes, freq, m, up2, sv2)
    IN  IF ~pro THEN Out(Failed("Tushare not initialized"), file, <<>>)
        ELSE IF names = <<>> THEN Out(Failed("No stock names provided"), file, <<>>)
        ELSE IF found.raised
        THEN Using(found.df, Out(Raised("KeyError"), found.file, found.calls))
        ELSE IF found.map = <<>>
        THEN Using(found.df, Out(Failed("Could not find codes for"), found.file, found.calls))
        ELSE Using(found.df, Out(AttachNotFound(result.ret, NotFound(names, found.map)),
                                 result.file, found.calls \o result.calls))

----------------------------------------------------------------------------
(* Market-wide ranking *)

NaN == [na |-> TRUE, v |-> 0]
Num(n) == [na |-> FALSE, v |-> n]

MarketRow(code, pct) == [ts_code |-> code, pct_change |-> pct]

\* The market snapshots ts.realtime_list may return
Snapshots ==
    { << MarketRow(<<"1">>, Num(5)), MarketRow(<<"2">>, NaN), MarketRow(<<"3">>, Num(7)) >>,
      << MarketRow(<<"1">>, Num(3)), MarketRow(<<"2">>, Num(3)), MarketRow(<<"3">>, Num(4)) >> }

\* What ts.realtime_list may do: raise, return nothing, return a snapshot
ListOutcomes ==
    {[kind |-> "raise", rows |-> <<>>], DataFrame(<<>>)} \cup {DataFrame(t) : t \in Snapshots}

\* _get_realtime_list; cleaning maps NaN to None and keeps numbers
_get_realtime_list(file, src, l) ==
    IF ~TUSHARE_AVAILABLE THEN Out(Failed("Tushare not available"), file, <<>>)
    ELSE IF l.kind = "raise"
    THEN Out(Failed("str(e)"), file, <<Call("realtime_list", FALSE)>>)
    ELSE IF IsNoneOrEmpty(l)
    THEN Out(Succeeded(<<>>, Metadata({"src", "count", "message"}, 0)),
             file, <<Call("realtime_list", TRUE)>>)
    ELSE Out(Succeeded(l.rows, Metadata({"src", "count", "query_time"}, Len(l.rows))),
             file, <<Call("realtime_list", TRUE)>>)

\* Mutant of Before: rows without a value sort first
Before_NaFirst(a, b, ascending) ==
    IF b.na THEN FALSE
    ELSE IF a.na THEN TRUE
    ELSE IF ascending THEN a.v < b.v ELSE a.v > b.v

\* a sorts before b under sort_values(ascending=..., na_position='last')
Before(a, b, ascending) ==
    IF a.na THEN FALSE
    ELSE IF b.na THEN TRUE
    ELSE IF ascending THEN a.v < b.v ELSE a.v > b.v

\* insert r after every row it does not sort before
RECURSIVE Insert(_, _, _)
Insert(r, sorted, ascending) ==
    IF sorted = <<>> THEN <<r>>
    ELSE IF Before(r.pct_change, Head(sorted).pct_change, ascending)
         THEN <<r>> \o sorted
         ELSE <<Head(sorted)>> \o Insert(r, Tail(sorted), ascending)

RECURSIVE SortFrom(_, _, _)
SortFrom(rows, sorted, ascending) ==
    IF rows = <<>> THEN sorted
    ELSE SortFrom(Tail(rows), Insert(Head(rows), sorted, ascending), ascending)

\* df.sort_values(by=sort_by, ascending=ascending, na_position='last')
sort_values(rows, ascending) == SortFrom(rows, <<>>, ascending)

\* df.head(n)
head(rows, n) ==
    IF n >= 0 THEN SubSeq(rows, 1, IF n < Len(rows) THEN n ELSE Len(rows))
    ELSE SubSeq(rows, 1, IF Len(rows) + n > 0 THEN Len(rows) + n ELSE 0)

Columns == {"ts_code", "pct_change"}

\* Mutant of SortedBy: a field that is no column falls back to the default
\* ranking field
SortedBy_Default(rows, sort_by, ascending) == sort_values(rows, ascending)

\* if sort_by in df.columns: df = df.sort_values(...)
SortedBy(rows, sort_by, ascending) ==
    IF sort_by \in Columns THEN sort_values(rows, ascending) ELSE rows

\* get_realtime_list_top
get_realtime_list_top(file, src, top_n, sort_by, ascending, l) ==
    LET result == _get_realtime_list(file, src, l)
        df == SortedBy(result.ret.data, sort_by, ascending)
        df_top == head(df, top_n)
    IN  IF ~result.ret.success \/ result.ret.data = <<>> THEN result
        ELSE Out(Succeeded(df_top,
                     Metadata({"src", "top_n", "sort_by", "ascending", "count",
                               "total_stocks", "query_time"}, Len(df_top))),
                 file, result.calls)

----------------------------------------------------------------------------
(* FinnhubService *)

\* str.isdigit() and int() of one character
IsDigit(c) == c \in {"0", "1", "2", "3", "4", "5", "6", "7", "8", "9"}
DigitValue(c) ==
    CASE c = "0" -> 0 [] c = "1" -> 1 [] c = "2" -> 2 [] c = "3" -> 3 [] c = "4" -> 4
      [] c = "5" -> 5 [] c = "6" -> 6 [] c = "7" -> 7 [] c = "8" -> 8 [] c = "9" -> 9

\* int(token) of a string of digits, leading blanks ignored
RECURSIVE Number(_)
Number(token) ==
    IF token = <<>> THEN 0
    ELSE IF token[Len(token)] = " " THEN 0
    ELSE Number(SubSeq(token, 1, Len(token) - 1)) * 10 + DigitValue(token[Len(token)])

\* The fields strptime's pattern for "%Y-%m-%d" cuts a string into: the
\* pattern has two literal dashes and no field can hold one
DateFields(date_str) ==
    LET dashes == SelectSeq([i \in DOMAIN date_str |-> i], LAMBDA i : date_str[i] = "-")
    IN  IF Len(dashes) # 2 THEN <<>>
        ELSE << SubSeq(date_str, 1, dashes[1] - 1),
                SubSeq(date_str, dashes[1] + 1, dashes[2] - 1),
                SubSeq(date_str, dashes[2] + 1, Len(date_str)) >>

\* %Y: four digits
MatchesYear(token) == Len(token) = 4 /\ \A i \in DOMAIN token : IsDigit(token[i])

\* %m: 1[0-2] | 0[1-9] | [1-9]
MatchesMonth(token) ==
    \/ Len(token) = 1 /\ IsDigit(token[1]) /\ token[1] # "0"
    \/ Len(token) = 2 /\ token[1] = "0" /\ IsDigit(token[2]) /\ token[2] # "0"
    \/ Len(token) = 2 /\ token[1] = "1" /\ token[2] \in {"0", "1", "2"}

\* %d: 3[0-1] | [1-2]\d | 0[1-9] | [1-9] | " "[1-9]
MatchesDay(token) ==
    \/ Len(token) = 1 /\ IsDigit(token[1]) /\ token[1] # "0"
    \/ Len(token) = 2 /\ token[1] = "3" /\ token[2] \in {"0", "1"}
    \/ Len(token) = 2 /\ token[1] \in {"1", "2"} /\ IsDigit(token[2])
    \/ Len(token) = 2 /\ token[1] \in {"0", " "} /\ IsDigit(token[2]) /\ token[2] # "0"

\* The proleptic Gregorian calendar of datetime
IsLeap(y) == y % 4 = 0 /\ (y % 100 # 0 \/ y % 400 = 0)
DaysInMonth(y, m) ==
    IF m = 2 THEN (IF IsLeap(y) THEN 29 ELSE 28)
    ELSE IF m \in {4, 6, 9, 11} THEN 30 ELSE 31
DaysBeforeYear(y) == (y - 1) * 365 + (y - 1) \div 4 - (y - 1) \div 100 + (y - 1) \div 400
RECURSIVE DaysBeforeMonth(_, _)
DaysBeforeMonth(y, m) ==
    IF m = 1 THEN 0 ELSE DaysBeforeMonth(y, m - 1) + DaysInMonth(y, m - 1)
toordinal(y, m, d) == DaysBeforeYear(y) + DaysBeforeMonth(y, m) + d

\* datetime.datetime.strptime(date_str, "%Y-%m-%d"): ok is FALSE where it
\* raises ValueError (no match, text left over, or no such calendar day)
strptime(date_str) ==
    LET f == DateFields(date_str)
        matched == f # <<>> /\ MatchesYear(f[1]) /\ MatchesMonth(f[2]) /\ MatchesDay(f[3])
        y == IF matched THEN Number(f[1]) ELSE 0
        m == IF matched THEN Number(f[2]) ELSE 0
        d == IF matched THEN Number(f[3]) ELSE 0
    IN  [ok |-> matched /\ y >= 1 /\ d <= DaysInMonth(y, m),
         year |-> y, month |-> m, day |-> d]

\* _date_to_timestamp: seconds from the epoch to the UTC midnight (or last
\* second) of the day; 0 where strptime raises ValueError
_date_to_timestamp(date_str, end_of_day) ==
    LET dt == strptime(date_str) IN
    IF ~dt.ok THEN 0
    ELSE (toordinal(dt.year, dt.month, dt.day) - toordinal(1970, 1, 1)) * (24 * 3600)
         + (IF end_of_day THEN 23 * 3600 + 59 * 60 + 59 ELSE 0)

\* Python values of the Finnhub side: None, a dict or a list with its items
PyNone == [kind |-> "None", items |-> <<>>]
PyEmpty == [kind |-> "dict", items |-> <<>>]
PyData == [kind |-> "dict", items |-> <<1>>]
PyList(items) == [kind |-> "list", items |-> items]
PyDict(fields) == [kind |-> "dict", items |-> fields]
PyRaise == [kind |-> "raise", items |-> <<>>]

\* bool(value)
PyTruthy(value) == value.kind # "None" /\ DOMAIN value.items # {}

\* What one Finnhub endpoint may do: raise, return an empty or a filled object
ApiOutcomes == {PyRaise, PyEmpty, PyData}

\* The news lists company_news may return, each item standing for its
\* datetime: short or long, newest first or oldest first.  The code does not
\* look at the order.
NewsOutcomes ==
    {PyRaise, PyList(<<3, 2, 1>>), PyList([i \in 1..(NewsLimit + 1) |-> 20 - i]),
     PyList([i \in 1..(NewsLimit + 1) |-> i])}

\* Mutant of _safe_api_call: a failed call yields an empty object
_safe_api_call_EmptyDict(outcome) ==
    IF ~client THEN PyNone
    ELSE IF outcome.kind = "raise" THEN PyEmpty
    ELSE outcome

\* _safe_api_call: None without a client or when the call raises
_safe_api_call(outcome) ==
    IF ~client THEN PyNone
    ELSE IF outcome.kind = "raise" THEN PyNone
    ELSE outcome

ApiCall(endpoint, outcome) == Call(endpoint, outcome.kind # "raise")

\* Mutant of _format_response: the failure envelope is the bare
\* {"success": False, "error": ...}
_format_response_BareFailure(data, meta) ==
    IF data.kind = "None"
    THEN Failed("No data returned or API error")
    ELSE [Envelope(TRUE, {"success", "found", "data", "metadata"}, data, "",
                   Metadata({"query_time"} \cup meta, 0))
             EXCEPT !.found = PyTruthy(data)]

\* _format_response
_format_response(data, meta) ==
    IF data.kind = "None"
    THEN Envelope(FALSE, {"success", "error", "metadata"}, <<>>,
                  "No data returned or API error",
                  Metadata({"query_time"} \cup meta, 0))
    ELSE [Envelope(TRUE, {"success", "found", "data", "metadata"}, data, "",
                   Metadata({"query_time"} \cup meta, 0))
             EXCEPT !.found = PyTruthy(data)]

Res(r, cs) == [ret |-> r, calls |-> cs]

\* self.client.<endpoint> is evaluated before _safe_api_call is entered
NoClient == Res(Raised("AttributeError"), <<>>)

\* _get_company_profile
_get_company_profile(o) ==
    IF ~client THEN NoClient
    ELSE Res(_format_response(
                 PyDict([profile |-> _safe_api_call(o[1]), peers |-> _safe_api_call(o[2])]),
                 {"symbol"}),
             <<ApiCall("company_profile2", o[1]), ApiCall("company_peers", o[2])>>)

\* _get_market_data
_get_market_data(o) ==
    IF ~client THEN NoClient
    ELSE Res(_format_response(PyDict([quote |-> _safe_api_call(o[1])]),
                              {"symbol", "period"}),
             <<ApiCall("quote", o[1])>>)

\* _get_financials
_get_financials(o) ==
    IF ~client THEN NoClient
    ELSE Res(_format_response(
                 PyDict([basic_financials |-> _safe_api_call(o[1]),
                         earnings_surprises |-> _safe_api_call(o[2]),
                         dividends |-> _safe_api_call(o[3])]),
                 {"symbol", "period"}),
             <<ApiCall("company_basic_financials", o[1]), ApiCall("company_earnings", o[2]),
               ApiCall("stock_dividends", o[3])>>)

\* _get_estimates_and_analysis
_get_estimates_and_analysis(o) ==
    IF ~client THEN NoClient
    ELSE Res(_format_response(PyDict([recommendation_trends |-> _safe_api_call(o[1])]),
                              {"symbol", "period"}),
             <<ApiCall("recommendation_trends", o[1])>>)

\* news[:10]
FirstNews(items) == SubSeq(items, 1, IF Len(items) < NewsLimit THEN Len(items) ELSE NewsLimit)

\* _get_sentiment_and_news
_get_sentiment_and_news(o) ==
    LET news == _safe_api_call(o[1]) IN
    IF ~client THEN NoClient
    ELSE Res(_format_response(
                 PyDict([news |-> IF news.kind = "list" THEN PyList(FirstNews(news.items))
                                  ELSE news]),
                 {"symbol", "period"}),
             <<ApiCall("company_news", o[1])>>)

Categories == <<"company_profile", "market_data", "financials", "analysis", "sentiment">>

\* _get_all_stock_info: o[i] holds the outcomes of the i-th category's calls
CategoryResults(o) ==
    << _get_company_profile(o[1]), _get_market_data(o[2]), _get_financials(o[3]),
       _get_estimates_and_analysis(o[4]), _get_sentiment_and_news(o[5]) >>

\* Mutant of Merge: a category whose every field is None is left out
Merge_NonNull(results) ==
    LET included == {i \in DOMAIN results :
                        /\ results[i].ret.success
                        /\ \E f \in DOMAIN results[i].ret.data.items :
                              results[i].ret.data.items[f].kind # "None"} IN
    PyDict([k \in {Categories[i] : i \in included} |->
               results[CHOOSE i \in included : Categories[i] = k].ret.data])

\* raw_data: the data of the categories to include, by category key
Merge(results) ==
    LET included == {i \in DOMAIN results : results[i].ret.success} IN
    PyDict([k \in {Categories[i] : i \in included} |->
               results[CHOOSE i \in included : Categories[i] = k].ret.data])

_get_all_stock_info(o) ==
    LET results == CategoryResults(o) IN
    IF ~client THEN NoClient
    ELSE Res(_format_response(Merge(results), {"symbol", "period", "generated_at"}),
             results[1].calls \o results[2].calls \o results[3].calls
                 \o results[4].calls \o results[5].calls)

\* The single-endpoint fetchers _fetch_transcripts ... _fetch_aggregate_indicator
FetchEndpoints ==
    {"transcripts", "transcripts_list", "company_executive", "filings",
     "stock_insider_transactions", "ownership", "fund_ownership", "news_sentiment",
     "stock_social_sentiment", "stock_insider_sentiment", "upgrade_downgrade",
     "pattern_recognition", "support_resistance", "aggregate_indicator"}

_fetch(endpoint, outcome) ==
    IF ~client THEN NoClient
    ELSE Res(_format_response(_safe_api_call(outcome), {"symbol"}),
             <<ApiCall(endpoint, outcome)>>)

----------------------------------------------------------------------------
(* Inputs of the requests *)

\* The pieces a stock_names string is made of, joined by commas
Pieces == { <<>>, <<" ", "a">>, <<"A">> }

PieceLists == UNION { [1..k -> Pieces] : k \in 1..MaxPieces }

\* The lists of names _get_code_by_name is called with
NameLists == UNION { [1..k -> { <<"a">>, <<" ", "a">>, <<"A">> }] : k \in 1..MaxPieces }

\* "a,a,...,a" with n names
ManyNames(n) == [i \in 1..(2 * n - 1) |-> IF i % 2 = 1 THEN "a" ELSE ","]

StockNameInputs == { join(p) : p \in PieceLists }

\* The same, with requests at and over the limit of get_realtime_by_name
QuoteNameInputs ==
    StockNameInputs \cup { ManyNames(MaxStocksPerRequest), ManyNames(MaxStocksPerRequest + 1) }

CodeInputs == { <<>>, <<"1">>, <<"3">>, <<"1", ",", "2">> }

FreqInputs == { <<"5", "M", "I", "N">>, <<"5", "m", "i", "n">>, <<"2", "M", "I", "N">> }

\* An outcome is drawn for a call only where the call is made
UpChoices(file, t) ==
    IF pro /\ ~CacheHit(file, t) THEN StockBasicOutcomes ELSE {None}

SvChoices(up) == IF IsNoneOrEmpty(up) THEN {"ok"} ELSE SaveOutcomes

----------------------------------------------------------------------------
(* State machine *)

NoArg == [none |-> TRUE]
NoRet == [kind |-> "none"]
NoInner == None

Idle == op = "none"

\* The coroutines of the event loop, and one that has not been started
TaskIds == 1..NumTasks
NotStarted == [pc |-> "idle", df |-> None, hit |-> FALSE]

Tushare == service = "TushareRealtimeService"
Finnhub == service = "FinnhubService"

Init ==
    /\ service \in {"TushareRealtimeService", "FinnhubService"}
    /\ TUSHARE_AVAILABLE \in {a \in BOOLEAN : Finnhub => ~a}
    /\ pro \in {p \in BOOLEAN : p => TUSHARE_AVAILABLE}
    /\ client \in {c \in BOOLEAN : Tushare => ~c}
    /\ now = 0
    /\ ticks = 0
    /\ cache \in {NoFile} \cup {CacheRecord(0, t) : t \in (IF Tushare THEN Tables ELSE {})}
    /\ op = "none"
    /\ arg = NoArg
    /\ ret = NoRet
    /\ calls = <<>>
    /\ pre = cache
    /\ inner = NoInner
    /\ tasks = [i \in TaskIds |-> NotStarted]
    /\ issued = <<>>
    /\ written = <<>>

\* Time passes between two requests.
Tick ==
    /\ Idle /\ Tushare
    /\ ticks < MaxTicks
    /\ \E d \in {1, cache_expire_hours * SecondsPerHour - 1} : now' = now + d
    /\ ticks' = ticks + 1
    /\ UNCHANGED <<config, cache, op, arg, ret, calls, pre, inner, coroutines>>

\* The caller takes the returned value; the next request may start.
Return ==
    /\ ~Idle
    /\ op' = "none"
    /\ arg' = NoArg
    /\ ret' = NoRet
    /\ calls' = <<>>
    /\ pre' = cache
    /\ inner' = NoInner
    /\ UNCHANGED <<config, now, ticks, cache, coroutines>>

\* A request of the Tushare service: its result, the file it leaves, the
\* upstream calls it made, the directory it worked from
TushareRequest(name, a, out) ==
    /\ op' = name
    /\ arg' = a
    /\ ret' = out.ret
    /\ calls' = out.calls
    /\ cache' = out.file
    /\ pre' = cache
    /\ inner' = out.df
    /\ UNCHANGED <<config, now, ticks, coroutines>>

GetStockBasic ==
    /\ Idle /\ Tushare
    /\ \E up \in UpChoices(cache, now) : \E sv \in SvChoices(up) :
         LET r == _get_stock_basic(cache, now, up, sv) IN
         TushareRequest("_get_stock_basic", NoArg, Using(r.df, Out(r.df, r.file, r.calls)))

GetCodeByName ==
    /\ Idle /\ Tushare
    /\ \E names \in NameLists, up \in UpChoices(cache, now) : \E sv \in SvChoices(up) :
         LET r == _get_code_by_name(cache, now, names, up, sv) IN
         TushareRequest("_get_code_by_name", [names |-> names],
                        Using(r.df, Out(IF r.raised THEN Raised("KeyError")
                                         ELSE [kind |-> "dict", map |-> r.map],
                                         r.file, r.calls)))

GetNameByCode ==
    /\ Idle /\ Tushare
    /\ \E codes \in {split(c) : c \in CodeInputs}, up \in UpChoices(cache, now) :
       \E sv \in SvChoices(up) :
         LET r == _get_name_by_code(cache, now, codes, up, sv) IN
         TushareRequest("_get_name_by_code", [codes |-> codes],
                        Using(r.df, Out(IF r.raised THEN Raised("KeyError")
                                         ELSE [kind |-> "dict", map |-> r.map],
                                         r.file, r.calls)))

GetRealtimeQuote ==
    /\ Idle /\ Tushare
    /\ \E ts_codes \in CodeInputs, q \in EndpointOutcomes :
         TushareRequest("_get_realtime_quote", [ts_codes |-> ts_codes],
                        _get_realtime_quote(cache, ts_codes, "sina", q))

GetRealtimeByName ==
    /\ Idle /\ Tushare
    /\ \E stock_names \in QuoteNameInputs, up \in UpChoices(cache, now), q \in EndpointOutcomes :
       \E sv \in SvChoices(up) :
         TushareRequest("get_realtime_by_name", [stock_names |-> stock_names],
                        get_realtime_by_name(cache, now, stock_names, up, sv, q))

GetRealtimeTick ==
    /\ Idle /\ Tushare
    /\ \E ts_code \in CodeInputs, k \in EndpointOutcomes, up \in UpChoices(cache, now) :
       \E sv \in SvChoices(up) :
         TushareRequest("_get_realtime_tick", [ts_code |-> ts_code],
                        _get_realtime_tick(cache, now, ts_code, "sina", k, up, sv))

GetRealtimeTickByName ==
    /\ Idle /\ Tushare
    /\ \E stock_name \in StockNameInputs, up \in UpChoices(cache, now), k \in EndpointOutcomes :
       \E sv \in SvChoices(up) :
         LET first == _get_stock_basic(cache, now, up, sv) IN
         \E up2 \in UpChoices(first.file, now) : \E sv2 \in SvChoices(up2) :
            TushareRequest("get_realtime_tick_by_name", [stock_name |-> stock_name],
                get_realtime_tick_by_name(cache, now, stock_name, "sina", up, sv, k, up2, sv2))

GetRealtimeMinute ==
    /\ Idle /\ Tushare
    /\ \E ts_codes \in CodeInputs, freq \in FreqInputs, m \in EndpointOutcomes,
          up \in UpChoices(cache, now) :
       \E sv \in SvChoices(up) :
         TushareRequest("_get_realtime_minute", [ts_codes |-> ts_codes, freq |-> freq],
                        _get_realtime_minute(cache, now, ts_codes, freq, m, up, sv))

GetMinuteByName ==
    /\ Idle /\ Tushare
    /\ \E stock_names \in StockNameInputs, freq \in FreqInputs, m \in EndpointOutcomes,
          up \in UpChoices(cache, now) :
       \E sv \in SvChoices(up) :
         LET first == _get_stock_basic(cache, now, up, sv) IN
         \E up2 \in UpChoices(first.file, now) : \E sv2 \in SvChoices(up2) :
            TushareRequest("_get_minute_by_name", [stock_names |-> stock_names, freq |-> freq],
                _get_minute_by_name(cache, now, stock_names, freq, up, sv, m, up2, sv2))

GetRealtimeList ==
    /\ Idle /\ Tushare
    /\ \E l \in ListOutcomes :
         TushareRequest("_get_realtime_list", [src |-> "dc"],
                        _get_realtime_list(cache, "dc", l))

GetRealtimeListTop ==
    /\ Idle /\ Tushare
    /\ \E top_n \in {2, 20}, sort_by \in {"pct_change", "turnover"}, ascending \in BOOLEAN,
          l \in ListOutcomes :
         TushareRequest("get_realtime_list_top",
                        [src |-> "dc", top_n |-> top_n, sort_by |-> sort_by,
                         ascending |-> ascending, snapshot |-> l],
                        get_realtime_list_top(cache, "dc", top_n, sort_by, ascending, l))

\* Date strings given to the Finnhub methods
DateInputs ==
    { <<"2", "0", "2", "4", "-", "0", "1", "-", "1", "5">>,
      <<"2", "0", "2", "4", "-", "1", "-", "5">>,
      <<"2", "0", "2", "4", "-", "0", "2", "-", "2", "9">>,
      <<"2", "0", "2", "3", "-", "0", "2", "-", "2", "9">>,
      <<"2", "0", "2", "4", "-", "0", "2", "-", "3", "0">>,
      <<"1", "9", "7", "0", "-", "0", "1", "-", "0", "1">>,
      <<"1", "9", "6", "9", "-", "1", "2", "-", "3", "1">>,
      <<"2", "0", "2", "4", "-", "1", "3", "-", "0", "1">>,
      <<"0", "0", "0", "0", "-", "0", "1", "-", "0", "1">>,
      <<"0", "1", "/", "1", "5", "/", "2", "0", "2", "4">>,
      <<"2", "0", "2", "4", "0", "1", "1", "5">>,
      <<"2", "0", "2", "4", "-", "0", "1", "-", "1", "5", "x">>,
      <<"2", "0", "2", "4", "-", "0", "1", "-", " ", "5">>,
      <<>> }

\* The start_date and end_date of one request: both well formed, or one of
\* them not a date
DatePairs ==
    { [start_date |-> <<"2", "0", "2", "4", "-", "0", "1", "-", "1", "5">>,
       end_date |-> <<"2", "0", "2", "4", "-", "0", "2", "-", "2", "9">>],
      [start_date |-> <<"0", "1", "/", "1", "5", "/", "2", "0", "2", "4">>,
       end_date |-> <<"2", "0", "2", "4", "-", "0", "2", "-", "2", "9">>],
      [start_date |-> <<"2", "0", "2", "4", "-", "0", "1", "-", "1", "5">>,
       end_date |-> <<>>] }

\* A request of the Finnhub service
FinnhubRequest(name, a, r, results) ==
    /\ op' = name
    /\ arg' = a
    /\ ret' = r.ret
    /\ calls' = r.calls
    /\ inner' = results
    /\ UNCHANGED <<config, now, ticks, cache, pre, coroutines>>

GetCompanyProfile ==
    /\ Idle /\ Finnhub
    /\ \E o \in [1..2 -> ApiOutcomes] :
         FinnhubRequest("_get_company_profile", NoArg, _get_company_profile(o), NoInner)

GetMarketData ==
    /\ Idle /\ Finnhub
    /\ \E o \in [1..1 -> ApiOutcomes], dates \in DatePairs :
         FinnhubRequest("_get_market_data", dates, _get_market_data(o), NoInner)

GetFinancials ==
    /\ Idle /\ Finnhub
    /\ \E o \in [1..3 -> ApiOutcomes], dates \in DatePairs :
         FinnhubRequest("_get_financials", dates, _get_financials(o), NoInner)

GetEstimatesAndAnalysis ==
    /\ Idle /\ Finnhub
    /\ \E o \in [1..1 -> ApiOutcomes], dates \in DatePairs :
         FinnhubRequest("_get_estimates_and_analysis", dates, _get_estimates_and_analysis(o), NoInner)

GetSentimentAndNews ==
    /\ Idle /\ Finnhub
    /\ \E o \in [1..1 -> NewsOutcomes], dates \in DatePairs :
         FinnhubRequest("_get_sentiment_and_news", dates, _get_sentiment_and_news(o), o[1])

GetAllStockInfo ==
    /\ Idle /\ Finnhub
    /\ \E o1 \in [1..2 -> ApiOutcomes], o2 \in [1..1 -> ApiOutcomes],
          o3 \in [1..3 -> ApiOutcomes], o4 \in [1..1 -> ApiOutcomes],
          o5 \in [1..1 -> NewsOutcomes], dates \in DatePairs :
         LET o == <<o1, o2, o3, o4, o5>> IN
         FinnhubRequest("_get_all_stock_info", dates, _get_all_stock_info(o),
                        IF client THEN [i \in 1..5 |-> CategoryResults(o)[i].ret]
                        ELSE NoInner)

Fetch ==
    /\ Idle /\ Finnhub
    /\ \E endpoint \in FetchEndpoints, outcome \in ApiOutcomes \cup {PyNone} :
         FinnhubRequest("_fetch_" \o endpoint, NoArg, _fetch(endpoint, outcome), NoInner)

\* _date_to_timestamp needs no client
DateToTimestamp ==
    /\ Idle /\ Finnhub
    /\ \E date_str \in DateInputs, end_of_day \in BOOLEAN :
         FinnhubRequest("_date_to_timestamp",
                        [date_str |-> date_str, end_of_day |-> end_of_day],
                        Res([kind |-> "int", v |-> _date_to_timestamp(date_str, end_of_day)],
                            <<>>),
                        NoInner)

Next ==
    \/ Tick
    \/ Return
    \/ GetStockBasic
    \/ GetCodeByName
    \/ GetNameByCode
    \/ GetRealtimeQuote
    \/ GetRealtimeByName
    \/ GetRealtimeTick
    \/ GetRealtimeTickByName
    \/ GetRealtimeMinute
    \/ GetMinuteByName
    \/ GetRealtimeList
    \/ GetRealtimeListTop
    \/ GetCompanyProfile
    \/ GetMarketData
    \/ GetFinancials
    \/ GetEstimatesAndAnalysis
    \/ GetSentimentAndNews
    \/ GetAllStockInfo
    \/ Fetch
    \/ DateToTimestamp

Spec == Init /\ [][Next]_vars

----------------------------------------------------------------------------
(* The service started on a cache file it did not write *)

\* The files another program, or a crash, may leave at the cache path
DamagedFiles(t) ==
    {CorruptFile, NotAnObject, ScalarPayload(t), ForeignPayload(t)}
        \cup {NoTimestamp(tbl) : tbl \in Tables}
        \cup {BadTimestamp(tbl) : tbl \in Tables}

\* time.time() counts from 1970: the clock reads more than one window
InitDamaged ==
    /\ service = "TushareRealtimeService"
    /\ TUSHARE_AVAILABLE \in BOOLEAN
    /\ pro \in {p \in BOOLEAN : p => TUSHARE_AVAILABLE}
    /\ client = FALSE
    /\ now = cache_expire_hours * SecondsPerHour
    /\ ticks = 0
    /\ cache \in DamagedFiles(now)
    /\ op = "none"
    /\ arg = NoArg
    /\ ret = NoRet
    /\ calls = <<>>
    /\ pre = cache
    /\ inner = NoInner
    /\ tasks = [i \in TaskIds |-> NotStarted]
    /\ issued = <<>>
    /\ written = <<>>

\* The requests that read the directory
NextDirectory ==
    \/ Tick
    \/ Return
    \/ GetStockBasic
    \/ GetCodeByName
    \/ GetNameByCode
    \/ GetRealtimeByName
    \/ GetRealtimeTick
    \/ GetRealtimeTickByName
    \/ GetRealtimeMinute
    \/ GetMinuteByName

SpecDamaged == InitDamaged /\ [][NextDirectory]_vars

----------------------------------------------------------------------------
(* Coroutines of one event loop running _get_stock_basic concurrently.  A
   coroutine runs without interruption from one await to the next: the only
   await of _get_stock_basic is the one of pro.stock_basic in the executor. *)

request == <<op, arg, ret, calls, pre, inner>>

InitConcurrent ==
    /\ service = "TushareRealtimeService"
    /\ TUSHARE_AVAILABLE = TRUE
    /\ pro \in BOOLEAN
    /\ client = FALSE
    /\ now = 0
    /\ ticks = 0
    /\ cache \in {NoFile} \cup {CacheRecord(0, t) : t \in Tables}
    /\ op = "none"
    /\ arg = NoArg
    /\ ret = NoRet
    /\ calls = <<>>
    /\ pre = cache
    /\ inner = NoInner
    /\ tasks = [i \in TaskIds |-> NotStarted]
    /\ issued = <<>>
    /\ written = <<>>

Returned(df, hit) == [pc |-> "done", df |-> df, hit |-> hit]
Awaiting == [pc |-> "awaiting", df |-> None, hit |-> FALSE]

\* _get_stock_basic up to its await: the cached frame is returned, or the
\* upstream call is handed to the executor
Begin(i) ==
    /\ tasks[i].pc = "idle"
    /\ IF ~pro
       THEN tasks' = [tasks EXCEPT ![i] = Returned(None, FALSE)] /\ UNCHANGED issued
       ELSE IF CacheHit(cache, now)
       THEN /\ tasks' = [tasks EXCEPT ![i] = Returned(FrameOf(_load_cache(cache, now)), TRUE)]
            /\ UNCHANGED issued
       ELSE /\ Len(issued) < MaxCalls
            /\ tasks' = [tasks EXCEPT ![i] = Awaiting]
            /\ issued' = Append(issued, [at |-> now, by |-> i])
    /\ UNCHANGED <<config, now, ticks, cache, request, written>>

\* _get_stock_basic from the end of the awaited call to its return
Complete(i) ==
    /\ tasks[i].pc = "awaiting"
    /\ \E up \in StockBasicOutcomes : \E sv \in SvChoices(up) :
         LET r == AfterFetch(cache, now, up, sv) IN
         /\ tasks' = [tasks EXCEPT ![i] = Returned(r.df, FALSE)]
         /\ cache' = r.file
         /\ written' = IF ~IsNoneOrEmpty(up) /\ up.kind # "raise" /\ sv = "ok"
                       THEN Append(written, up.rows) ELSE written
    /\ UNCHANGED <<config, now, ticks, request, issued>>

\* The caller takes the frame; the coroutine may be started again
Collect(i) ==
    /\ tasks[i].pc = "done"
    /\ tasks' = [tasks EXCEPT ![i] = NotStarted]
    /\ UNCHANGED <<config, now, ticks, cache, request, issued, written>>

BeginFetch == \E i \in TaskIds : Begin(i)
CompleteFetch == \E i \in TaskIds : Complete(i)
CollectFrame == \E i \in TaskIds : Collect(i)

NextConcurrent ==
    \/ Tick
    \/ BeginFetch
    \/ CompleteFetch
    \/ CollectFrame

SpecConcurrent == InitConcurrent /\ [][NextConcurrent]_vars

----------------------------------------------------------------------------
(* A cache file stamped ahead of the clock *)

\* The service starts on a cache file whose record is stamped now or one
\* hour ahead of the clock: the clock was set back after the file was
\* written, or the file was written by hand.
InitSkewed ==
    /\ service = "TushareRealtimeService"
    /\ TUSHARE_AVAILABLE = TRUE
    /\ pro \in BOOLEAN
    /\ client = FALSE
    /\ now = 0
    /\ ticks = 0
    /\ cache \in {CacheRecord(stamp, t) : stamp \in {0, SecondsPerHour}, t \in Tables}
    /\ op = "none"
    /\ arg = NoArg
    /\ ret = NoRet
    /\ calls = <<>>
    /\ pre = cache
    /\ inner = NoInner
    /\ tasks = [i \in TaskIds |-> NotStarted]
    /\ issued = <<>>
    /\ written = <<>>

NextSkewed ==
    \/ Tick
    \/ Return
    \/ GetStockBasic

SpecSkewed == InitSkewed /\ [][NextSkewed]_vars

----------------------------------------------------------------------------
(* Properties *)

\* The number of calls the last request made to an upstream endpoint
NumCalls(endpoint) == Cardinality({i \in DOMAIN calls : calls[i].endpoint = endpoint})

\* An upstream call of the last request raised
UpstreamFailed == \E i \in DOMAIN calls : ~calls[i].ok

\* The file the last request found held a record written less than the
\* validity window ago
WithinWindow ==
    pre.kind = "record" /\ now - pre.timestamp < cache_expire_hours * SecondsPerHour

\* C1: a directory fetch that finds a cache record within the validity window
\* makes no upstream call; on a service initialised with a credential, a
\* fetch that finds no such record (older, absent or unreadable) calls the
\* upstream listing exactly once.
C1_CacheCorrectness ==
    op = "_get_stock_basic" =>
        /\ WithinWindow => NumCalls("stock_basic") = 0
        /\ (pro /\ ~WithinWindow) => NumCalls("stock_basic") = 1

\* A record aged exactly the window is refetched with one upstream call
C1_Witness ==
    /\ op = "_get_stock_basic"
    /\ pro
    /\ pre.kind = "record"
    /\ now - pre.timestamp = cache_expire_hours * SecondsPerHour
    /\ NumCalls("stock_basic") = 1

\* The directory fetch called upstream and the call raised
DirectoryFetchFailed ==
    op = "_get_stock_basic" /\ calls = <<Call("stock_basic", FALSE)>>

\* C2 as stated: after an upstream failure the directory fetch returns the
\* previous snapshot if one is on disk, and is empty only when none exists.
C2_StaleFallback ==
    DirectoryFetchFailed =>
        /\ pre.kind = "record" => ret = DataFrame(pre.data)
        /\ IsNoneOrEmpty(ret) => pre.kind # "record"

\* C2: after an upstream failure the directory fetch returns None, whether
\* or not a previous snapshot is on disk, and leaves the cache file as it
\* found it.
C2_FailureReturnsNone ==
    DirectoryFetchFailed => ret = None /\ cache = pre

\* The upstream call raised while an expired snapshot was on disk
C2_Witness ==
    /\ DirectoryFetchFailed
    /\ pre.kind = "record"
    /\ pre.data # <<>>
    /\ ret = None

\* C3: the merged output of the fan-out has a category's key exactly when
\* that category's fetcher reported success; were all five to fail, the
\* merged map would be empty under an overall success.
C3_MergeKeys ==
    (op = "_get_all_stock_info" /\ ret.kind = "envelope") =>
        /\ \A i \in DOMAIN Categories :
              (Categories[i] \in DOMAIN ret.data.items) <=> inner[i].success
        /\ (\A i \in DOMAIN Categories : ~inner[i].success) =>
              (ret.success /\ DOMAIN ret.data.items = {})

\* Every upstream call of the fan-out raised: the five categories still
\* report success and the merged map has all five keys
C3_Witness ==
    /\ op = "_get_all_stock_info"
    /\ ret.kind = "envelope"
    /\ calls # <<>>
    /\ \A i \in DOMAIN calls : ~calls[i].ok
    /\ DOMAIN ret.data.items = {Categories[i] : i \in DOMAIN Categories}

RealtimeEndpoints == {"realtime_quote", "realtime_tick", "rt_min", "realtime_list"}

\* C4: a request during which an upstream call raised does not raise; when
\* the call that raised is the realtime endpoint of the request, the request
\* returns a failed envelope.
C4_UpstreamFailureCaught ==
    /\ UpstreamFailed => ret.kind # "raise"
    /\ (\E i \in DOMAIN calls : ~calls[i].ok /\ calls[i].endpoint \in RealtimeEndpoints)
          => (ret.kind = "envelope" /\ ~ret.success)

\* The quote endpoint raised under a lookup by name and the caller got a
\* failed envelope
C4_Witness ==
    /\ op = "get_realtime_by_name"
    /\ \E i \in DOMAIN calls : ~calls[i].ok /\ calls[i].endpoint = "realtime_quote"
    /\ ret.kind = "envelope"
    /\ ~ret.success

\* The requests the two services are used through
Operations ==
    {"get_realtime_by_name", "get_realtime_tick_by_name", "get_realtime_list_top",
     "_get_realtime_quote", "_get_realtime_tick", "_get_realtime_minute",
     "_get_minute_by_name", "_get_realtime_list",
     "_get_company_profile", "_get_market_data", "_get_financials",
     "_get_estimates_and_analysis", "_get_sentiment_and_news", "_get_all_stock_info"}
        \cup {"_fetch_" \o e : e \in FetchEndpoints}

\* C5 as stated: every operation returns an envelope, and an envelope with
\* success false carries no data.
C5_EnvelopeInvariant ==
    op \in Operations =>
        /\ ret.kind = "envelope"
        /\ ~ret.success => "data" \notin ret.keys

\* The names of a by-name request, as the request splits them
RequestedNames == names_list(arg.stock_names)

\* The frequencies the minute-bar request documents
DocumentedFreqs ==
    { <<"1", "M", "I", "N">>, <<"5", "M", "I", "N">>, <<"1", "5", "M", "I", "N">>,
      <<"3", "0", "M", "I", "N">>, <<"6", "0", "M", "I", "N">> }

\* C6 as stated, for a service initialised with a credential and a request
\* that names at least one stock: a minute-bar request by name whose
\* frequency, in any letter case, is none of 1MIN, 5MIN, 15MIN, 30MIN, 60MIN
\* fails with the invalid-frequency error and calls no upstream endpoint.
C6_InvalidFreqRejectedFirst ==
    (/\ op = "_get_minute_by_name"
     /\ pro
     /\ RequestedNames # <<>>
     /\ upper(arg.freq) \notin DocumentedFreqs) =>
        /\ ret = Failed("Invalid freq")
        /\ calls = <<>>

\* C7: a quote request by name that lists more than 50 names fails with the
\* maximum-exceeded error and calls no upstream endpoint.
C7_MaxNames ==
    (op = "get_realtime_by_name" /\ Len(RequestedNames) > 50) =>
        /\ ret = Failed("Maximum 50 stocks per request")
        /\ calls = <<>>
        /\ cache = pre

\* 51 names, with no directory on disk, so that going on would call upstream
C7_Witness ==
    /\ op = "get_realtime_by_name"
    /\ Len(RequestedNames) = 51
    /\ pro
    /\ pre.kind = "absent"
    /\ ret = Failed("Maximum 50 stocks per request")
    /\ calls = <<>>

\* The directory the last request read lists the name
Resolved(name) == \E i \in DOMAIN inner.rows : inner.rows[i].name = name

Unresolved == SelectSeq(RequestedNames, LAMBDA n : ~Resolved(n))

\* A quote request by name that passed the checks on its list of names
QuoteByName ==
    /\ op = "get_realtime_by_name"
    /\ RequestedNames # <<>>
    /\ Len(RequestedNames) <= 50

NotFoundAttached ==
    /\ ret.kind = "envelope"
    /\ "metadata" \in ret.keys
    /\ "not_found_names" \in ret.metadata.keys
    /\ ret.metadata.not_found_names = Unresolved

NoCodesError == ret.kind = "envelope" /\ ret.error = "Could not find codes for"

\* C8 as stated: when at least one name resolves, every unresolved name is
\* in the response metadata and the request does not fail for the unresolved
\* names; the no-codes error is returned only when no name resolves.
C8_NotFoundAlwaysAttached ==
    QuoteByName =>
        /\ (\E i \in DOMAIN RequestedNames : Resolved(RequestedNames[i])) =>
              /\ ~NoCodesError
              /\ Unresolved # <<>> => NotFoundAttached
        /\ NoCodesError => \A i \in DOMAIN RequestedNames : ~Resolved(RequestedNames[i])

\* C8: when at least one name resolves, the unresolved names are in the
\* metadata of every successful response, and a response that is not
\* successful is the failure of the quote call, without them; the no-codes
\* error is returned exactly when no name resolves.
C8_NotFoundAttachedOnSuccess ==
    QuoteByName =>
        /\ (\E i \in DOMAIN RequestedNames : Resolved(RequestedNames[i])) =>
              /\ ret.kind = "envelope"
              /\ ~NoCodesError
              /\ (ret.success /\ Unresolved # <<>>) => NotFoundAttached
              /\ ~ret.success =>
                    /\ ret = Failed("str(e)")
                    /\ NumCalls("realtime_quote") = 1
        /\ NoCodesError <=> \A i \in DOMAIN RequestedNames : ~Resolved(RequestedNames[i])

\* One name resolved, one did not, the quote call returned no rows: the
\* response is successful and names the one not found
C8_Witness ==
    /\ QuoteByName
    /\ \E i \in DOMAIN RequestedNames : Resolved(RequestedNames[i])
    /\ Unresolved # <<>>
    /\ ret.success
    /\ ret.data = <<>>
    /\ NotFoundAttached

\* C9: a tick request by name whose argument holds a comma fails and does
\* not call the tick endpoint (no name of the directory holds a comma).
C9_TickSingleName ==
    (op = "get_realtime_tick_by_name" /\ HasComma(arg.stock_name)) =>
        /\ ret.kind = "envelope"
        /\ ~ret.success
        /\ NumCalls("realtime_tick") = 0

\* Two names the directory lists, given as one comma-separated argument
C9_Witness ==
    /\ op = "get_realtime_tick_by_name"
    /\ arg.stock_name = <<" ", "a", ",", "A">>
    /\ Resolved(<<"a">>)
    /\ Resolved(<<"A">>)
    /\ ret = Failed("Could not find code for")

\* C10: name resolution returns a dict and never raises; every key is one of
\* the names asked for and maps to the code of a directory entry with exactly
\* that name; a name that no entry has exactly is not a key.
C10_ExactResolution ==
    op = "_get_code_by_name" =>
        /\ ret.kind = "dict"
        /\ \A i \in DOMAIN ret.map :
              /\ ret.map[i].key \in Range(arg.names)
              /\ \E j \in DOMAIN inner.rows :
                    /\ inner.rows[j].name = ret.map[i].key
                    /\ inner.rows[j].ts_code = ret.map[i].value
        /\ \A n \in Range(arg.names) : ~Resolved(n) => n \notin DictKeys(ret.map)

\* Of two names differing only in case, the one the directory lists is a
\* key and the other is not
C10_Witness ==
    /\ op = "_get_code_by_name"
    /\ <<"a">> \in DictKeys(ret.map)
    /\ <<"A">> \in Range(arg.names)
    /\ <<"A">> \notin DictKeys(ret.map)

\* A ranking request, highest first, that returned records
RankedDescending ==
    /\ op = "get_realtime_list_top"
    /\ ~arg.ascending
    /\ arg.top_n >= 0
    /\ ret.kind = "envelope"
    /\ ret.success

\* C11: a ranking request with top_n = N and ascending = False returns at
\* most N records; when the requested field is a column of the snapshot, the
\* records that have a value come first, in non-increasing order of it, and
\* the records without a value come after all of them.
C11_TopNDescending ==
    RankedDescending =>
        /\ Len(ret.data) <= arg.top_n
        /\ arg.sort_by \in Columns =>
              \A i, j \in DOMAIN ret.data :
                  i < j =>
                      /\ ret.data[i].pct_change.na => ret.data[j].pct_change.na
                      /\ (~ret.data[i].pct_change.na /\ ~ret.data[j].pct_change.na)
                            => ret.data[i].pct_change.v >= ret.data[j].pct_change.v

\* A snapshot of three rows, the middle one without a value, ranked whole:
\* the two values come highest first and the row without a value is last
C11_Witness ==
    /\ RankedDescending
    /\ arg.sort_by = "pct_change"
    /\ Len(arg.snapshot.rows) = 3
    /\ arg.snapshot.rows[2].pct_change.na
    /\ Len(ret.data) = 3
    /\ ret.data[1].pct_change.v > ret.data[2].pct_change.v
    /\ ret.data[3].pct_change.na

\* The directory fetch and the two resolve operations
DirectoryOps == {"_get_stock_basic", "_get_code_by_name", "_get_name_by_code"}

\* The file the last request found was neither absent nor a record the
\* service wrote
FoundDamaged == pre.kind \notin {"absent", "record"}

\* C12 as stated, for a service initialised with a credential: a directory
\* fetch or a resolve operation that finds an unparseable file, a top level
\* that is no object, a missing or non-numeric timestamp, or a payload that
\* is no table with code and name columns refetches the directory from
\* upstream and does not raise.
C12_DamagedFileIsMiss ==
    (op \in DirectoryOps /\ pro /\ FoundDamaged) =>
        /\ NumCalls("stock_basic") = 1
        /\ ret.kind # "raise"

\* C13 as stated: whatever the interleaving of the coroutines that need the
\* directory, no two upstream listing calls are issued less than one
\* expiration window apart.
C13_OneRefreshPerWindow ==
    \A i, j \in DOMAIN issued :
        i < j => issued[j].at - issued[i].at >= cache_expire_hours * SecondsPerHour

\* The returned envelope has a metadata key whose mapping has query_time
HasQueryTime == "metadata" \in ret.keys /\ "query_time" \in ret.metadata.keys

\* C14 as stated: the metadata of every returned envelope, successful or
\* failed, carries query_time.
C14_QueryTimeAlways == ret.kind = "envelope" => HasQueryTime

\* C14: every envelope of the Finnhub service carries query_time.  An
\* envelope of the Tushare service carries it only when successful: a failed
\* one has no metadata at all, a successful one for which upstream returned
\* no rows carries a message in place of query_time, and a successful one
\* with records carries query_time.
C14_QueryTimeWhereSet ==
    ret.kind = "envelope" =>
        /\ Finnhub => HasQueryTime
        /\ Tushare =>
              /\ ~ret.success => "metadata" \notin ret.keys
              /\ (ret.success /\ "message" \in ret.metadata.keys) => ~HasQueryTime
              /\ (ret.success /\ ret.data # <<>>) => HasQueryTime

\* A successful quote by name for which upstream returned no rows: metadata
\* with a message and without query_time
C14_Witness ==
    /\ op = "get_realtime_by_name"
    /\ ret.kind = "envelope"
    /\ ret.success
    /\ ret.data = <<>>
    /\ "message" \in ret.metadata.keys
    /\ ~HasQueryTime

\* The service was constructed without a usable provider handle: self.pro
\* is None (no token, no tushare, or pro_api raised), or self.client is None
\* (finnhub.Client raised)
ConfigurationError == (Tushare /\ ~pro) \/ (Finnhub /\ ~client)

\* C15 as stated, in its weaker half: on a service instance constructed
\* under a configuration error no operation raises.
C15_DegradedNeverRaises ==
    (ConfigurationError /\ ~Idle) => ret.kind # "raise"

\* C16: among coroutines of one event loop, whenever the cache file holds a
\* record after some refresh has written, its payload is exactly the payload
\* of the last refresh that wrote; and every frame a coroutine got from the
\* cache is the whole payload of one fetch.  (A write that failed half-way
\* leaves no record, and a read of it is a miss.)
C16_LastWriterWins ==
    /\ (cache.kind = "record" /\ written # <<>>) => cache.data = written[Len(written)]
    /\ \A i \in TaskIds :
          (tasks[i].pc = "done" /\ tasks[i].hit) =>
              /\ tasks[i].df.kind = "DataFrame"
              /\ tasks[i].df.rows \in Tables

\* Two refreshes wrote different payloads one after the other, the file
\* holds the second, and a coroutine that then read the cache got the second
C16_Witness ==
    /\ Len(written) >= 2
    /\ written[Len(written) - 1] # written[Len(written)]
    /\ cache.kind = "record"
    /\ cache.data = written[Len(written)]
    /\ \E i \in TaskIds :
          /\ tasks[i].pc = "done"
          /\ tasks[i].hit
          /\ tasks[i].df.rows = written[Len(written)]

\* The sub-calls of each category fetcher, in the order the code issues
\* them, with the field of the category's data each one fills
SubCalls(category) ==
    CASE category = "_get_company_profile" ->
            << <<"company_profile2", "profile">>, <<"company_peers", "peers">> >>
      [] category = "_get_market_data" -> << <<"quote", "quote">> >>
      [] category = "_get_financials" ->
            << <<"company_basic_financials", "basic_financials">>,
               <<"company_earnings", "earnings_surprises">>,
               <<"stock_dividends", "dividends">> >>
      [] category = "_get_estimates_and_analysis" ->
            << <<"recommendation_trends", "recommendation_trends">> >>
      [] category = "_get_sentiment_and_news" -> << <<"company_news", "news">> >>

CategoryFetchers ==
    {"_get_company_profile", "_get_market_data", "_get_financials",
     "_get_estimates_and_analysis", "_get_sentiment_and_news"}

\* C17: when a sub-call of a category fetcher failed, the category still
\* returns a successful envelope; every sub-call of the category was issued,
\* in order; the field of a failed sub-call is None and the field of every
\* other sub-call holds what that call returned (not None).
C17_FailedSubCallIsNull ==
    (op \in CategoryFetchers /\ UpstreamFailed) =>
        /\ ret.kind = "envelope"
        /\ ret.success
        /\ Len(calls) = Len(SubCalls(op))
        /\ DOMAIN ret.data.items = {SubCalls(op)[i][2] : i \in DOMAIN calls}
        /\ \A i \in DOMAIN calls :
              /\ calls[i].endpoint = SubCalls(op)[i][1]
              /\ ~calls[i].ok <=> ret.data.items[SubCalls(op)[i][2]] = PyNone

\* The first of the three financial sub-calls failed, the other two were
\* issued after it and their results are in the data
C17_Witness ==
    /\ op = "_get_financials"
    /\ Len(calls) = 3
    /\ ~calls[1].ok /\ calls[2].ok /\ calls[3].ok
    /\ ret.kind = "envelope" /\ ret.success
    /\ ret.data.items.basic_financials = PyNone
    /\ ret.data.items.earnings_surprises = PyData
    /\ ret.data.items.dividends = PyData

\* C18: within one request no endpoint is invoked again after a call to it
\* failed; a failed call never surfaces as an exception; on the Tushare
\* side nothing is called after a failed call, and a failed realtime call
\* makes the request return a failed envelope.
C18_NoRetry ==
    /\ \A i, j \in DOMAIN calls :
          (i < j /\ calls[i].endpoint = calls[j].endpoint) => calls[i].ok
    /\ \A i \in DOMAIN calls :
          ~calls[i].ok =>
              /\ ret.kind # "raise"
              /\ Tushare => i = Len(calls)
              /\ calls[i].endpoint \in RealtimeEndpoints =>
                    ret.kind = "envelope" /\ ~ret.success

\* A request called the directory endpoint twice, because the first result
\* could not be saved, and the second call failed: it is the last call
C18_Witness ==
    /\ \E i, j \in DOMAIN calls :
          /\ i < j
          /\ calls[i].endpoint = "stock_basic" /\ calls[i].ok
          /\ calls[j].endpoint = "stock_basic" /\ ~calls[j].ok
          /\ j = Len(calls)
    /\ ret.kind = "envelope"

\* The directory fetch called upstream and got a non-empty directory
SuccessfulRefetch ==
    /\ op = "_get_stock_basic"
    /\ calls = <<Call("stock_basic", TRUE)>>
    /\ ~IsNoneOrEmpty(ret)

\* C19 as stated: a directory fetch that got a non-empty directory from
\* upstream leaves the record holding that directory and the time of the
\* fetch; every other directory fetch leaves the file exactly as it was.
C19_OverwrittenOnEachRefetch ==
    op = "_get_stock_basic" =>
        IF SuccessfulRefetch THEN cache = CacheRecord(now, ret.rows) ELSE cache = pre

\* C19: no step changes the cache file unless an upstream directory call of
\* that step returned a non-empty directory, and a step that changes it
\* leaves either a record of a fetched directory stamped with the time of
\* the fetch, or a file cut short by a failed write.  A directory fetch
\* that reads within the window, whose upstream call fails or returns an
\* empty directory leaves the file as it was; one that got a non-empty
\* directory leaves that directory's record, or, when the write failed, the
\* old file or a file cut short.
C19_ChangesOnlyByRefetch ==
    [][ /\ cache' # cache =>
              /\ \E i \in DOMAIN calls' :
                    calls'[i].endpoint = "stock_basic" /\ calls'[i].ok
              /\ \/ cache' = CorruptFile
                 \/ /\ cache'.kind = "record"
                    /\ cache'.timestamp = now'
                    /\ cache'.data \in Tables \ {<<>>}
        /\ (op = "none" /\ op' = "_get_stock_basic") =>
              IF SuccessfulRefetch'
              THEN cache' \in {CacheRecord(now', ret'.rows), cache, CorruptFile}
              ELSE cache' = cache
      ]_vars

\* An expired record was overwritten by a refetch: new payload, new time
C19_Witness ==
    /\ SuccessfulRefetch
    /\ pre.kind = "record"
    /\ cache = CacheRecord(now, ret.rows)
    /\ cache.data # pre.data
    /\ cache.timestamp # pre.timestamp

\* Times at and after the current one, up to a full window later
LaterTimes == {now, now + 1, now + cache_expire_hours * SecondsPerHour}

\* A directory fetch whose write of the cache file failed returned the
\* fetched directory all the same, and the file it left (the old one, or one
\* cut short) is no valid record now or later
SaveFailureNotFatal ==
    /\ (op = "_get_stock_basic" /\ cache # pre /\ cache = CorruptFile) =>
          /\ calls = <<Call("stock_basic", TRUE)>>
          /\ ret.kind = "DataFrame"
          /\ ret.rows \in Tables \ {<<>>}
    /\ (SuccessfulRefetch /\ cache # CacheRecord(now, ret.rows)) =>
          /\ cache \in {pre, CorruptFile}
          /\ \A t \in LaterTimes : ~CacheHit(cache, t)

\* C20: a failed write of the cache file is not fatal: the directory fetch
\* that attempted it returns the freshly fetched directory and leaves no
\* valid record; and a directory fetch that finds no valid record calls
\* upstream once and returns a frame or None, never an exception.
C20_SaveFailureIsMiss ==
    [][ /\ SaveFailureNotFatal'
        /\ (op = "none" /\ op' = "_get_stock_basic" /\ pro /\ ~CacheHit(cache, now)) =>
              /\ Len(calls') = 1
              /\ calls'[1].endpoint = "stock_basic"
              /\ ret'.kind \in {"DataFrame", "None"}
      ]_vars

\* The write broke off after an expired record had been opened for writing:
\* the file is cut short and the fetch returned the fetched directory
C20_Witness ==
    /\ SuccessfulRefetch
    /\ pre.kind = "record"
    /\ cache = CorruptFile
    /\ ret.rows # pre.data

\* A ranking request whose sort field is no column of the snapshot
UnknownSortField == op = "get_realtime_list_top" /\ arg.sort_by \notin Columns

\* C21: a ranking request whose sort field is no column of a non-empty
\* snapshot succeeds and returns the first top_n records of the snapshot in
\* the order upstream sent them; with such a field the envelope is a failure
\* only when the snapshot itself could not be fetched.
C21_UnknownFieldUnsorted ==
    UnknownSortField =>
        /\ ret.kind = "envelope"
        /\ (TUSHARE_AVAILABLE /\ ~IsNoneOrEmpty(arg.snapshot)) =>
              /\ ret.success
              /\ ret.data = SubSeq(arg.snapshot.rows, 1,
                                   IF arg.top_n < Len(arg.snapshot.rows)
                                   THEN arg.top_n ELSE Len(arg.snapshot.rows))
        /\ ~ret.success => (~TUSHARE_AVAILABLE \/ arg.snapshot.kind = "raise")

\* The snapshot's first row ranks below its third; with an unknown field the
\* first two rows come back as they were sent, the lower one first
C21_Witness ==
    /\ UnknownSortField
    /\ ~arg.ascending
    /\ arg.top_n = 2
    /\ Len(arg.snapshot.rows) = 3
    /\ ret.kind = "envelope" /\ ret.success
    /\ ret.data = <<arg.snapshot.rows[1], arg.snapshot.rows[2]>>
    /\ ret.data # head(sort_values(arg.snapshot.rows, FALSE), 2)

\* A string of the form YYYY-MM-DD: ten characters, digits around two dashes
WellFormedDate(s) ==
    /\ Len(s) = 10
    /\ s[5] = "-" /\ s[8] = "-"
    /\ \A i \in {1, 2, 3, 4, 6, 7, 9, 10} : IsDigit(s[i])

\* The methods that take start_date and end_date
DatedFetchers ==
    {"_get_market_data", "_get_financials", "_get_estimates_and_analysis",
     "_get_sentiment_and_news", "_get_all_stock_info"}

\* C22: _date_to_timestamp returns 0 for every string that is not of the
\* form YYYY-MM-DD, and a category fetcher or the aggregate called with a
\* start_date or end_date that is not of that form returns an envelope.
C22_MalformedDatesGiveZero ==
    /\ (op = "_date_to_timestamp" /\ ~WellFormedDate(arg.date_str)) => ret.v = 0
    /\ (op \in DatedFetchers
          /\ (~WellFormedDate(arg.start_date) \/ ~WellFormedDate(arg.end_date))) =>
          ret.kind = "envelope"

\* The sentiment fetcher returned a news list; inner is the list upstream sent
NewsReturned ==
    /\ op = "_get_sentiment_and_news"
    /\ ret.kind = "envelope" /\ ret.success
    /\ ret.data.items.news.kind = "list"

\* C23: the news list of the sentiment fetcher has at most 10 items, and
\* they are the most recent of the upstream list: every item returned is
\* more recent than every item of the upstream list that was left out.
C23_MostRecentTen ==
    NewsReturned =>
        LET returned == ret.data.items.news.items
            upstream == inner.items
        IN  /\ Len(returned) <= NewsLimit
            /\ Len(returned) = (IF Len(upstream) < NewsLimit THEN Len(upstream) ELSE NewsLimit)
            /\ Range(returned) \subseteq Range(upstream)
            /\ \A x \in Range(returned) : \A y \in Range(upstream) \ Range(returned) : x > y

\* C24: a directory fetch on a service with a credential that finds a
\* record with a non-empty payload serves it, unchanged and with no upstream
\* call, if and only if the clock minus the record's timestamp is less than
\* 24 * 3600 seconds; otherwise it calls upstream once.  So a record aged
\* exactly 24 hours is refetched, and a record stamped ahead of the clock is
\* served while the difference stays below the window.
C24_FreshnessBoundary ==
    (op = "_get_stock_basic" /\ pro /\ pre.kind = "record" /\ pre.data # <<>>) =>
        IF now - pre.timestamp < 24 * 3600
        THEN calls = <<>> /\ ret = DataFrame(pre.data) /\ cache = pre
        ELSE NumCalls("stock_basic") = 1

\* A record stamped ahead of the clock was served with no upstream call
C24_Witness ==
    /\ op = "_get_stock_basic"
    /\ pro
    /\ pre.kind = "record"
    /\ pre.data # <<>>
    /\ now < pre.timestamp
    /\ calls = <<>>
    /\ ret = DataFrame(pre.data)

====
